---- MODULE Spec2Model ----
(***************************************************************************)
(* Model of the CloudFront invalidation operator's event handler           *)
(* (src/pkg/stub/handler.go): Handler.Handle and the invalidate workflow,  *)
(* together with the two services it talks to, the cluster control plane   *)
(* (ConfigMap lookup, resource update) and the CDN (create-invalidation,   *)
(* get-invalidation).  Each event delivery is one invocation; an           *)
(* invocation advances one external call at a time, so that concurrent     *)
(* deliveries interleave at exactly the points where the Go code blocks.   *)
(***************************************************************************)
EXTENDS Integers, Sequences, FiniteSets, TLC

\* ------------------------------------------------------------------ bounds
\* Number of event deliveries (invocations of Handle) in a run.
NumInv == 2
\* Number of non-terminal poll answers recorded per invocation.
MaxPolls == 2

\* --------------------------------------------------------- program constants
ConfigDistributionID == "cloudfront.distribution.id"
ConfigCredentialID == "cloudfront.credential.id"
ConfigCredentialAccess == "cloudfront.credential.access"
StatusCompleted == "Completed"

\* ------------------------------------------------------------ small domains
Invocations == 1..NumInv
Namespace == "default"
\* Names of the Invalidation resources of the cluster.
Names == {"inv-a", "inv-b"}
\* An object of another kind that the watcher may also deliver.
OtherName == "pod-x"
ObjectNames == Names \cup {OtherName}
\* spec.path and spec.configMap of each object: inv-a names the ConfigMap of
\* the cluster, inv-b names one that does not exist.
PathOf(n) == IF n = "inv-a" THEN "/images/*" ELSE "/css/*"
ConfigMapOf(n) == IF n = "inv-a" THEN "cf-creds" ELSE "no-such-map"
ConfigMapName == "cf-creds"
ConfigKeys == {ConfigDistributionID, ConfigCredentialID, ConfigCredentialAccess}
\* Contents a ConfigMap may give the three keys: distinct values, or the empty
\* string everywhere (a legal value of a ConfigMap entry).
Valuations ==
  { [k \in ConfigKeys |->
       CASE k = ConfigDistributionID -> "E123"
         [] k = ConfigCredentialID -> "AKIA"
         [] k = ConfigCredentialAccess -> "s3cr3t"],
    [k \in ConfigKeys |-> ""] }
\* Statuses the CDN reports for an invalidation.
InProgress == "InProgress"
\* The error a CDN or control-plane call returns when it fails.
CallFailed == "request failed"

\* ------------------------------------------------------------------- errors
\* A Go error is modelled by its chain of messages, outermost first; nil is
\* the empty chain.
Nil == << >>
New(msg) == << msg >>
Wrap(e, msg) == << msg >> \o e

\* ---------------------------------------------------------------- the state
VARIABLES
  configMaps,  \* control plane: the ConfigMap, [present, data]
  store,       \* control plane: the persisted objects, by name
  cdn,         \* CDN: the invalidations created so far; the id is the index
  pc,          \* per invocation: where Handle/invalidate stands
  cr,          \* per invocation: event.Object, the in-memory resource
  distribution,\* per invocation: local variable distribution
  svc,         \* per invocation: credentials the CDN client was built with
  createId,    \* per invocation: create.Invalidation.Id (0 before create)
  calls,       \* per invocation: the external calls made, in order
  ret,         \* per invocation: the error Handle returned (Nil: success)
  lookup       \* the last call of getConfig: its arguments and its results

vars == << configMaps, store, cdn, pc, cr, distribution, svc, createId, calls, ret,
           lookup >>

NoStatus == [id |-> 0, phase |-> ""]
NoCreds == [id |-> "", secret |-> ""]
\* event.Object before the event is delivered.
NoObject == [kind |-> "none", namespace |-> "", name |-> "",
             spec |-> [configMap |-> "", path |-> ""], status |-> NoStatus]

\* Before getConfig is called.
NoLookup == [called |-> FALSE, want |-> "", before |-> << >>, order |-> << >>,
             value |-> "", err |-> Nil]

\* The ConfigMaps the cluster may hold under ConfigMapName: every subset of
\* the three keys, under either valuation.
ConfigData ==
  { [k \in ks |-> v[k]] : ks \in SUBSET ConfigKeys, v \in Valuations }

\* One entry of an invocation's call log.
Call(op, dist, id, path, phase, res) ==
  [op |-> op, dist |-> dist, id |-> id, path |-> path, phase |-> phase, res |-> res]

CallsOf(i, op) == SelectSeq(calls[i], LAMBDA c : c.op = op)

\* -------------------------------------------------------------------- Init
Init ==
  /\ configMaps \in {[present |-> FALSE, data |-> << >>]}
                    \cup {[present |-> TRUE, data |-> d] : d \in ConfigData}
  /\ store = [n \in ObjectNames |->
                 [kind |-> IF n \in Names THEN "Invalidation" ELSE "Pod",
                  namespace |-> Namespace,
                  name |-> n,
                  spec |-> [configMap |-> ConfigMapOf(n), path |-> PathOf(n)],
                  status |-> NoStatus]]
  /\ cdn = << >>
  /\ pc = [i \in Invocations |-> "idle"]
  /\ cr = [i \in Invocations |-> NoObject]
  /\ distribution = [i \in Invocations |-> ""]
  /\ svc = [i \in Invocations |-> NoCreds]
  /\ createId = [i \in Invocations |-> 0]
  /\ calls = [i \in Invocations |-> << >>]
  /\ ret = [i \in Invocations |-> Nil]
  /\ lookup = NoLookup

\* ------------------------------------------------------- pieces of the code
\* Mutant: the type switch takes every object for an Invalidation.
IsInvalidation_Any(o) == o.kind # "none"
\* The type switch of Handle: case *v1alpha1.Invalidation.
IsInvalidation(o) == o.kind = "Invalidation"

\* Mutant: Handle returns invalidate's error without its context.
HandleReturn_Unwrapped(e) == e
\* What Handle returns for the error invalidate returned.
HandleReturn(e) ==
  IF e # Nil THEN Wrap(e, "failed to process invalidation request") ELSE Nil

\* Handle returns: the invocation is over.
Finish(i, e) ==
  /\ pc' = [pc EXCEPT ![i] = "done"]
  /\ ret' = [ret EXCEPT ![i] = HandleReturn(e)]

\* Mutant: the three keys are validated in the opposite order.
MissingKeyError_Reversed(data) ==
  IF ConfigCredentialAccess \notin DOMAIN data
    THEN New("credential not found: access, skipping")
  ELSE IF ConfigCredentialID \notin DOMAIN data
    THEN New("credential not found: id, skipping")
  ELSE IF ConfigDistributionID \notin DOMAIN data
    THEN New("distribution not found, skipping")
  ELSE Nil
\* Validation of the ConfigMap: the error for the first missing key, or Nil.
MissingKeyError(data) ==
  IF ConfigDistributionID \notin DOMAIN data
    THEN New("distribution not found, skipping")
  ELSE IF ConfigCredentialID \notin DOMAIN data
    THEN New("credential not found: id, skipping")
  ELSE IF ConfigCredentialAccess \notin DOMAIN data
    THEN New("credential not found: access, skipping")
  ELSE Nil

\* The local variable distribution.
DistributionOf(data) == data[ConfigDistributionID]

\* The static credentials the CDN client is built with: credentialID is read
\* from the ConfigMap, credentialAccess is assigned the key constant itself.
CredentialsOf(data) ==
  [id |-> data[ConfigCredentialID], secret |-> ConfigCredentialAccess]

\* Context the create call's error is wrapped with.
CreateErrMsg == "failed to create invalidation"
\* Context the poll call's error is wrapped with.
PollErrMsg == "failed to create invalidation"

\* Mutant: the loop is left after any answer.
LoopExits_Always(status) == TRUE
\* The poll loop's exit test.
LoopExits(status) == status = StatusCompleted

\* Mutant: only the phase is written, the id is left at its zero value.
CompletedStatus_NoID(id) == [id |-> 0, phase |-> StatusCompleted]
\* The status written on completion.
CompletedStatus(id) == [id |-> id, phase |-> StatusCompleted]

NumGets(i) == Len(CallsOf(i, "GetInvalidation"))

\* The Paths of the create call: Quantity 1, Items [cr.Spec.Path].
CreateItems(o) == << o.spec.path >>

\* Mutant: the poll asks for the invalidation created last, whoever made it.
PollId_Latest(i) == Len(cdn)
\* The Id of the get call: create.Invalidation.Id.
PollId(i) == createId[i]

\* Mutant: the object sent to the control plane is built anew around the
\* status, its spec left at the zero value.
Updated_SpecDropped(o, id) ==
  [o EXCEPT !.status = [id |-> id, phase |-> StatusCompleted],
            !.spec = [configMap |-> "", path |-> ""]]
\* cr after the assignment of cr.Status.
Updated(o, id) == [o EXCEPT !.status = CompletedStatus(id)]

\* ----------------------------------------------------------------- actions
\* Mutant: deliveries are serialised, one invocation in flight at a time.
Handle_SingleFlight(i, n) ==
  /\ pc[i] = "idle"
  /\ \A j \in Invocations : j < i => pc[j] = "done"
  /\ cr' = [cr EXCEPT ![i] = store[n]]
  /\ IF ~IsInvalidation(store[n])
       THEN Finish(i, Nil)
       ELSE pc' = [pc EXCEPT ![i] = "load"] /\ UNCHANGED ret
  /\ UNCHANGED << configMaps, lookup, store, cdn, distribution, svc, createId, calls >>

\* Mutant: an Invalidation whose phase is already Completed is skipped.
Handle_SkipsCompleted(i, n) ==
  /\ pc[i] = "idle"
  /\ \A j \in Invocations : j < i => pc[j] # "idle"
  /\ cr' = [cr EXCEPT ![i] = store[n]]
  /\ IF ~IsInvalidation(store[n]) \/ store[n].status.phase = StatusCompleted
       THEN Finish(i, Nil)
       ELSE pc' = [pc EXCEPT ![i] = "load"] /\ UNCHANGED ret
  /\ UNCHANGED << configMaps, lookup, store, cdn, distribution, svc, createId, calls >>

\* The watcher delivers an event for object n to invocation i: Handle's type
\* switch, then invalidate up to the construction of the clientset.
\* Invocations are numbered in the order of their delivery.
Handle(i, n) ==
  /\ pc[i] = "idle"
  /\ \A j \in Invocations : j < i => pc[j] # "idle"
  /\ cr' = [cr EXCEPT ![i] = store[n]]
  /\ IF ~IsInvalidation(store[n])
       THEN Finish(i, Nil)
       ELSE \E out \in {"ok", "noconfig", "noclientset"} :
              CASE out = "ok" -> pc' = [pc EXCEPT ![i] = "load"] /\ UNCHANGED ret
                [] out = "noconfig" ->
                     Finish(i, Wrap(New(CallFailed), "failed to get Kubernetes config"))
                [] out = "noclientset" ->
                     Finish(i, Wrap(New(CallFailed), "failed to get Kubernetes clientset"))
  /\ UNCHANGED << configMaps, lookup, store, cdn, distribution, svc, createId, calls >>

\* ConfigMaps(namespace).Get(spec.configMap), then the validation of the
\* three keys and the construction of the CDN client.
LoadConfigMap(i) ==
  /\ pc[i] = "load"
  /\ \E transport \in {"ok", "error"} :
       LET found == /\ transport = "ok"
                    /\ configMaps.present
                    /\ cr[i].namespace = Namespace
                    /\ cr[i].spec.configMap = ConfigMapName
           log(res) == Append(calls[i],
                         Call("GetConfigMap", "", 0, cr[i].spec.configMap, "", res))
       IN IF ~found
            THEN /\ calls' = [calls EXCEPT ![i] = log("error")]
                 /\ Finish(i, Wrap(New(CallFailed), "failed to load ConfigMap"))
                 /\ UNCHANGED << distribution, svc >>
            ELSE /\ calls' = [calls EXCEPT ![i] = log("ok")]
                 /\ IF MissingKeyError(configMaps.data) # Nil
                      THEN /\ Finish(i, MissingKeyError(configMaps.data))
                           /\ UNCHANGED << distribution, svc >>
                      ELSE /\ distribution' = [distribution EXCEPT
                                                 ![i] = DistributionOf(configMaps.data)]
                           /\ svc' = [svc EXCEPT ![i] = CredentialsOf(configMaps.data)]
                           /\ pc' = [pc EXCEPT ![i] = "create"]
                           /\ UNCHANGED ret
  /\ UNCHANGED << configMaps, lookup, store, cdn, cr, createId >>

\* Mutant: the error of the create call is not checked.
CreateInvalidation_Unchecked(i) ==
  /\ pc[i] = "create"
  /\ \E out \in {"ok", "error"} :
       /\ calls' = [calls EXCEPT ![i] = Append(calls[i],
                      Call("CreateInvalidation", distribution[i],
                           IF out = "ok" THEN Len(cdn) + 1 ELSE 0,
                           cr[i].spec.path, "", out))]
       /\ IF out = "ok"
            THEN /\ cdn' = Append(cdn, [dist |-> distribution[i],
                                        path |-> cr[i].spec.path,
                                        items |-> CreateItems(cr[i]),
                                        creds |-> svc[i],
                                        status |-> InProgress])
                 /\ createId' = [createId EXCEPT ![i] = Len(cdn) + 1]
            ELSE UNCHANGED << cdn, createId >>
       /\ pc' = [pc EXCEPT ![i] = "poll"]
  /\ UNCHANGED << configMaps, lookup, store, cr, distribution, svc, ret >>

\* svc.CreateInvalidation for the single path cr.Spec.Path.
CreateInvalidation(i) ==
  /\ pc[i] = "create"
  /\ \E out \in {"ok", "error"} :
       LET log(id) == Append(calls[i],
                        Call("CreateInvalidation", distribution[i], id,
                             cr[i].spec.path, "", out))
       IN IF out = "error"
            THEN /\ calls' = [calls EXCEPT ![i] = log(0)]
                 /\ Finish(i, Wrap(New(CallFailed), CreateErrMsg))
                 /\ UNCHANGED << cdn, createId >>
            ELSE /\ cdn' = Append(cdn, [dist |-> distribution[i],
                                        path |-> cr[i].spec.path,
                                        items |-> CreateItems(cr[i]),
                                        creds |-> svc[i],
                                        status |-> InProgress])
                 /\ createId' = [createId EXCEPT ![i] = Len(cdn) + 1]
                 /\ calls' = [calls EXCEPT ![i] = log(Len(cdn) + 1)]
                 /\ pc' = [pc EXCEPT ![i] = "poll"]
                 /\ UNCHANGED ret
  /\ UNCHANGED << configMaps, lookup, store, cr, distribution, svc >>

\* One iteration of the poll loop: svc.GetInvalidation(distribution, id).
\* The CDN answers with the invalidation's status, or the call fails.
GetInvalidation(i) ==
  /\ pc[i] = "poll"
  /\ \E out \in {"error"} \cup
               { cdn[k].status : k \in { k \in 1..Len(cdn) :
                     k = PollId(i) /\ cdn[k].dist = distribution[i] } } :
       LET log == Append(calls[i],
                    Call("GetInvalidation", distribution[i], PollId(i), "", "", out))
       IN IF out = "error"
            THEN /\ calls' = [calls EXCEPT ![i] = log]
                 /\ Finish(i, Wrap(New(CallFailed), PollErrMsg))
            ELSE /\ LoopExits(out) \/ NumGets(i) < MaxPolls
                 /\ calls' = [calls EXCEPT ![i] = log]
                 /\ pc' = [pc EXCEPT ![i] = IF LoopExits(out) THEN "update" ELSE "poll"]
                 /\ UNCHANGED ret
  /\ UNCHANGED << configMaps, lookup, store, cdn, cr, distribution, svc, createId >>

\* cr.Status = {ID, Phase}; return sdk.Update(cr).
Update(i) ==
  /\ pc[i] = "update"
  /\ LET new == Updated(cr[i], createId[i])
     IN /\ cr' = [cr EXCEPT ![i] = new]
        /\ \E out \in {"ok", "error"} :
             /\ calls' = [calls EXCEPT ![i] = Append(calls[i],
                            Call("Update", "", new.status.id, new.name,
                                 new.status.phase, out))]
             /\ IF out = "ok"
                  THEN /\ store' = [store EXCEPT ![new.name] = new]
                       /\ Finish(i, Nil)
                  ELSE /\ UNCHANGED store
                       /\ Finish(i, New(CallFailed))
  /\ UNCHANGED << configMaps, lookup, cdn, distribution, svc, createId >>

\* The CDN finishes invalidation k.
ProviderCompletes(k) ==
  /\ k \in 1..Len(cdn)
  /\ cdn[k].status = InProgress
  /\ cdn' = [cdn EXCEPT ![k].status = StatusCompleted]
  /\ UNCHANGED << configMaps, lookup, store, pc, cr, distribution, svc, createId,
                  calls, ret >>

Next ==
  \/ \E i \in Invocations, n \in ObjectNames : Handle(i, n)
  \/ \E i \in Invocations : LoadConfigMap(i)
  \/ \E i \in Invocations : CreateInvalidation(i)
  \/ \E i \in Invocations : GetInvalidation(i)
  \/ \E i \in Invocations : Update(i)
  \/ \E k \in 1..NumInv : ProviderCompletes(k)

Spec == Init /\ [][Next]_vars

\* ------------------------------------------------------ the config resolver
\* The key names getConfig is asked for: the three keys of the handler and
\* the two further names of the handler variant that calls getConfig.
ConfigUserID == "cloudfront.iam.id"
ConfigUserSecret == "cloudfront.iam.secret"
WantKeys == ConfigKeys \cup {ConfigUserID, ConfigUserSecret}

\* The orders in which a range over a map of keys S may visit them.
IterationOrders(S) ==
  { o \in [1..Cardinality(S) -> S] :
      \A a, b \in 1..Cardinality(S) : a # b => o[a] # o[b] }

\* The loop of getConfig over the keys still to visit.
RECURSIVE getConfigLoop(_, _, _)
getConfigLoop(want, data, order) ==
  IF order = << >>
    THEN [value |-> "", err |-> New("not found")]
  ELSE IF Head(order) = want
    THEN [value |-> data[Head(order)], err |-> Nil]
  ELSE getConfigLoop(want, data, Tail(order))

\* Mutant: an entry whose value is empty counts as absent.
getConfig_SkipsEmpty(want, data, order) ==
  LET r == getConfigLoop(want, data, order)
  IN IF r.value = "" THEN [value |-> "", err |-> New("not found")] ELSE r
\* getConfig(want, cfg), with the order in which the range visits cfg.Data.
getConfig(want, data, order) == getConfigLoop(want, data, order)

\* A call of getConfig on the cluster's ConfigMap.
GetConfigCall(want, order) ==
  /\ configMaps.present
  /\ LET r == getConfig(want, configMaps.data, order)
     IN lookup' = [called |-> TRUE, want |-> want, before |-> configMaps.data,
                   order |-> order, value |-> r.value, err |-> r.err]
  /\ UNCHANGED << configMaps, store, cdn, pc, cr, distribution, svc, createId,
                  calls, ret >>

ResolverNext ==
  \E want \in WantKeys, order \in IterationOrders(DOMAIN configMaps.data) :
    GetConfigCall(want, order)

\* The resolver on its own: any ConfigMap, any key name, any iteration order.
ResolverSpec == Init /\ [][ResolverNext]_vars

\* A step of invocation i once its event is delivered.
Step(i) ==
  LoadConfigMap(i) \/ CreateInvalidation(i) \/ GetInvalidation(i) \/ Update(i)

\* The goroutine handling an event keeps running: the limiter ticks and each
\* blocking call returns.
FairSpec == Spec /\ \A i \in Invocations : WF_vars(Step(i))

\* ------------------------------------------------------------ the properties
Gets(i) == CallsOf(i, "GetInvalidation")
Creates(i) == CallsOf(i, "CreateInvalidation")
Updates(i) == CallsOf(i, "Update")
\* No call of invocation i returned an error.
ErrorFree(i) == \A k \in 1..Len(calls[i]) : calls[i][k].res # "error"
\* Invocation i holds an Invalidation whose ConfigMap was fetched.
Loaded(i) == \E k \in 1..Len(calls[i]) :
               calls[i][k].op = "GetConfigMap" /\ calls[i][k].res = "ok"

\* C1: when get-invalidation answers a non-Completed status N times and then
\* Completed, and no call fails, the invocation makes exactly N+1
\* get-invalidation calls (Completed is the answer of the last one and of no
\* earlier one), then terminates, and the status it writes is phase
\* "Completed" with the id the create call returned.
C1_PollsUntilCompleted ==
  \A i \in Invocations :
    /\ \A k \in 1..Len(Gets(i)) :
         Gets(i)[k].res = StatusCompleted =>
           k = Len(Gets(i)) /\ pc[i] # "poll"
    /\ (pc[i] = "done" /\ Creates(i) # << >> /\ ErrorFree(i)) =>
         /\ Len(Gets(i)) >= 1
         /\ Gets(i)[Len(Gets(i))].res = StatusCompleted
         /\ \A k \in 1..(Len(Gets(i)) - 1) : Gets(i)[k].res = InProgress
         /\ ret[i] = Nil
         /\ Len(Updates(i)) = 1
         /\ Updates(i)[1].id = Creates(i)[1].id
         /\ Updates(i)[1].phase = "Completed"
         /\ cr[i].status = [id |-> Creates(i)[1].id, phase |-> "Completed"]

\* An invocation finished without error after two InProgress answers.
C1_Witness ==
  \E i \in Invocations :
    /\ pc[i] = "done" /\ ErrorFree(i) /\ Len(Gets(i)) = 3
    /\ Gets(i)[1].res = InProgress /\ Gets(i)[2].res = InProgress
    /\ store[cr[i].name].status = [id |-> createId[i], phase |-> "Completed"]

\* C2: when the create-invalidation call returns an error, the invocation
\* ends with an error and has made no get-invalidation call and no status
\* write.
C2_CreateErrorAborts ==
  \A i \in Invocations :
    \A k \in 1..Len(calls[i]) :
      (calls[i][k].op = "CreateInvalidation" /\ calls[i][k].res = "error") =>
        /\ k = Len(calls[i])
        /\ pc[i] = "done"
        /\ ret[i] # Nil
        /\ Gets(i) = << >>
        /\ Updates(i) = << >>

\* An invocation whose create call failed.
C2_Witness ==
  \E i \in Invocations :
    /\ Creates(i) # << >>
    /\ Creates(i)[1].res = "error"
    /\ pc[i] = "done"

\* The error Handle returns when the create call fails.
CreateFailure == HandleReturn(Wrap(New(CallFailed), CreateErrMsg))

\* C3: when a get-invalidation call returns an error, the invocation ends
\* with a poll-failure error, one that differs from the create-failure
\* error, and makes no further poll and no status write.
C3_PollErrorIsDistinct ==
  \A i \in Invocations :
    \A k \in 1..Len(calls[i]) :
      (calls[i][k].op = "GetInvalidation" /\ calls[i][k].res = "error") =>
        /\ k = Len(calls[i])
        /\ pc[i] = "done"
        /\ Updates(i) = << >>
        /\ ret[i] # Nil
        /\ ret[i] # CreateFailure

\* The key a validation error names.
KeyNamedBy(msg) ==
  CASE msg = "distribution not found, skipping" -> ConfigDistributionID
    [] msg = "credential not found: id, skipping" -> ConfigCredentialID
    [] msg = "credential not found: access, skipping" -> ConfigCredentialAccess
    [] OTHER -> "none"

\* The first key a ConfigMap lacks, in the order distribution id, credential
\* id, credential access.
FirstMissing(data) ==
  LET order == << ConfigDistributionID, ConfigCredentialID, ConfigCredentialAccess >>
      k == CHOOSE k \in 1..3 :
             /\ order[k] \notin DOMAIN data
             /\ \A j \in 1..(k - 1) : order[j] \in DOMAIN data
  IN order[k]

\* C4: for a ConfigMap that lacks one of the three keys, the invocation
\* fails before any CDN call, and the error names the first missing key in
\* the order distribution id, credential id, credential access.
C4_MissingKeyNamedInOrder ==
  \A i \in Invocations :
    (Loaded(i) /\ DOMAIN configMaps.data # ConfigKeys) =>
      /\ pc[i] = "done"
      /\ Len(calls[i]) = 1
      /\ Len(ret[i]) = 2
      /\ KeyNamedBy(ret[i][2]) = FirstMissing(configMaps.data)

\* An invocation failed on a ConfigMap that lacks two keys, the first of them
\* the credential id.
C4_Witness ==
  \E i \in Invocations :
    /\ Loaded(i)
    /\ DOMAIN configMaps.data = {ConfigDistributionID}
    /\ ret[i] # Nil

\* C5: for a ConfigMap holding all three keys, the distribution id and the
\* credential pair the invocation uses are the three stored values.
C5_ConfigValuesUsed ==
  \A i \in Invocations :
    (Loaded(i) /\ DOMAIN configMaps.data = ConfigKeys) =>
      /\ distribution[i] = configMaps.data[ConfigDistributionID]
      /\ svc[i].id = configMaps.data[ConfigCredentialID]
      /\ svc[i].secret = configMaps.data[ConfigCredentialAccess]
      /\ \A k \in 1..Len(cdn) :
           k = createId[i] =>
             /\ cdn[k].dist = configMaps.data[ConfigDistributionID]
             /\ cdn[k].creds.secret = configMaps.data[ConfigCredentialAccess]

\* C6: an event whose object is not an Invalidation makes no ConfigMap
\* lookup, no CDN call and no status write, and Handle returns nil.
C6_OtherObjectsIgnored ==
  \A i \in Invocations :
    (pc[i] # "idle" /\ cr[i].name \notin Names) =>
      /\ pc[i] = "done"
      /\ ret[i] = Nil
      /\ calls[i] = << >>
      /\ createId[i] = 0
      /\ store[cr[i].name].status = NoStatus

\* An event for the Pod was handled.
C6_Witness ==
  \E i \in Invocations : pc[i] = "done" /\ cr[i].name = OtherName

\* The status writes persisted for resource n.
Writes(n) ==
  { << i, k >> \in Invocations \X (1..(MaxPolls + 4)) :
      /\ k <= Len(calls[i])
      /\ calls[i][k].op = "Update"
      /\ calls[i][k].res = "ok"
      /\ calls[i][k].path = n }

\* C7: over all the events handled for a resource, its status is written at
\* most once, and every status write follows a Completed answer in the same
\* invocation.
C7_StatusWrittenOnce ==
  /\ \A n \in Names : Cardinality(Writes(n)) <= 1
  /\ \A i \in Invocations :
       \A k \in 1..Len(calls[i]) :
         calls[i][k].op = "Update" =>
           /\ k > 1
           /\ calls[i][k - 1].op = "GetInvalidation"
           /\ calls[i][k - 1].res = StatusCompleted

\* Invocation i failed: a call of its returned an error, or Handle returned
\* one.
Failed(i) == ret[i] # Nil \/ ~ErrorFree(i)

\* C8: every failure is terminal for the invocation: the failed call is its
\* last external call, no stage was tried twice, Handle returns an error
\* wrapped with "failed to process invalidation request", the invocation has
\* persisted no status, and it makes no call afterwards.
C8_FailureIsTerminal ==
  /\ [](\A i \in Invocations :
          Failed(i) =>
            /\ pc[i] = "done"
            /\ Len(ret[i]) >= 2
            /\ ret[i][1] = "failed to process invalidation request"
            /\ \A k \in 1..Len(calls[i]) :
                 calls[i][k].res = "error" => k = Len(calls[i])
            /\ \A op \in {"GetConfigMap", "CreateInvalidation", "Update"} :
                 Len(CallsOf(i, op)) <= 1
            /\ \A k \in 1..Len(calls[i]) :
                 ~(calls[i][k].op = "Update" /\ calls[i][k].res = "ok"))
  /\ [][\A i \in Invocations :
          Failed(i) =>
            /\ calls'[i] = calls[i]
            /\ ret'[i] = ret[i]
            /\ pc'[i] = pc[i]
            /\ store' # store =>
                 \E j \in Invocations : j # i /\ calls'[j] # calls[j]]_vars

\* Failures of every stage have happened: the cluster configuration, the
\* ConfigMap load, a missing key, the create call, a poll and the update.
C8_Witness ==
  /\ \E i \in Invocations : Failed(i) /\ calls[i] = << >>
  /\ \E i \in Invocations :
       /\ Failed(i)
       /\ Len(calls[i]) >= 3
       /\ calls[i][Len(calls[i])].op = "Update"

\* The invalidation invocation i polls has been completed by the CDN.
ProviderDone(i) ==
  /\ createId[i] \in 1..Len(cdn)
  /\ cdn[createId[i]].status = StatusCompleted

\* C9: the poll loop has no bound of its own: an invocation leaves it only
\* on an answer that is Completed or an error, and writes no status while in
\* it; and once the CDN has completed the invalidation, a polling invocation
\* that keeps being scheduled terminates.
C9_LoopLeftOnlyOnCompletion ==
  /\ [][\A i \in Invocations :
          (pc[i] = "poll" /\ pc'[i] # "poll") =>
            LET last == calls'[i][Len(calls'[i])]
            IN /\ Len(calls'[i]) = Len(calls[i]) + 1
               /\ last.op = "GetInvalidation"
               /\ last.res \in {StatusCompleted, "error"}]_vars
  /\ [](\A i \in Invocations :
          pc[i] = "poll" =>
            /\ Updates(i) = << >>
            /\ \A k \in 1..Len(Gets(i)) : Gets(i)[k].res = InProgress)
  /\ \A i \in Invocations :
       (pc[i] = "poll" /\ ProviderDone(i)) ~> (pc[i] = "done")

\* An invocation is still polling after MaxPolls answers, none of them
\* Completed.
C9_Witness ==
  \E i \in Invocations :
    pc[i] = "poll" /\ Len(Gets(i)) = MaxPolls /\ ~ProviderDone(i)

\* C10: invocations are not coordinated: a delivered invocation's next call
\* is enabled whatever the other invocations are doing, and an event can be
\* delivered while earlier ones are still being handled.
C10_NoMutualExclusion ==
  \A i \in Invocations :
    /\ pc[i] = "load" => ENABLED LoadConfigMap(i)
    /\ pc[i] = "create" => ENABLED CreateInvalidation(i)
    /\ pc[i] = "poll" => ENABLED GetInvalidation(i)
    /\ pc[i] = "update" => ENABLED Update(i)
    /\ (pc[i] = "idle" /\ \A j \in Invocations : j < i => pc[j] # "idle") =>
         \A n \in ObjectNames : ENABLED Handle(i, n)

\* Two invocations have each created an invalidation for the same path of
\* the same distribution, and both invalidations are in progress at once.
C10_Witness ==
  \E i, j \in Invocations :
    /\ i # j
    /\ pc[i] = "poll" /\ pc[j] = "poll"
    /\ createId[i] # createId[j]
    /\ cdn[createId[i]].path = cdn[createId[j]].path
    /\ cdn[createId[i]].dist = cdn[createId[j]].dist
    /\ cdn[createId[i]].status = InProgress
    /\ cdn[createId[j]].status = InProgress

\* C11: getConfig returns the value stored under the key and no error when
\* the key is present, an empty value included, returns a "not found" error
\* when the key is absent, and leaves the ConfigMap as it was.
C11_GetConfigLooksUp ==
  lookup.called =>
    /\ lookup.want \in DOMAIN lookup.before =>
         /\ lookup.value = lookup.before[lookup.want]
         /\ lookup.err = Nil
    /\ lookup.want \notin DOMAIN lookup.before =>
         /\ lookup.err = << "not found" >>
         /\ lookup.value = ""
    /\ configMaps.data = lookup.before

\* getConfig found a key whose stored value is the empty string, in a
\* ConfigMap of three keys.
C11_Witness ==
  /\ lookup.called
  /\ DOMAIN lookup.before = ConfigKeys
  /\ lookup.want = ConfigCredentialAccess
  /\ lookup.before[lookup.want] = ""
  /\ lookup.err = Nil

\* C12: within one invocation the external calls come in the order config
\* fetch, create, polls, status update: the create call follows a successful
\* fetch of a ConfigMap holding all three keys, every poll follows a
\* successful create, the status update follows a poll answered Completed,
\* and the fetch, the create and the update happen at most once.
C12_CallsInOrder ==
  \A i \in Invocations :
    LET c == calls[i]
    IN \A k \in 1..Len(c) :
         /\ c[k].op = "GetConfigMap" => k = 1
         /\ c[k].op = "CreateInvalidation" =>
              /\ k = 2
              /\ c[1].op = "GetConfigMap" /\ c[1].res = "ok"
              /\ DOMAIN configMaps.data = ConfigKeys
         /\ c[k].op = "GetInvalidation" =>
              /\ k >= 3
              /\ c[2].op = "CreateInvalidation" /\ c[2].res = "ok"
              /\ \A j \in 3..k : c[j].op = "GetInvalidation"
         /\ c[k].op = "Update" =>
              /\ k = Len(c) /\ k >= 4
              /\ c[k - 1].op = "GetInvalidation"
              /\ c[k - 1].res = StatusCompleted
              /\ \A j \in 1..(k - 1) : c[j].op # "Update"

\* An invocation has gone through all four stages, with two polls.
C12_Witness ==
  \E i \in Invocations :
    /\ Len(calls[i]) = 5
    /\ calls[i][1].op = "GetConfigMap"
    /\ calls[i][2].op = "CreateInvalidation"
    /\ calls[i][3].op = "GetInvalidation"
    /\ calls[i][4].op = "GetInvalidation"
    /\ calls[i][5].op = "Update"

\* C13: the create call carries exactly one path, request.spec.path, and the
\* distribution id of the ConfigMap; every get call of the invocation uses
\* that distribution id and the id its own create call returned, an id no
\* other invocation's create call returned.
C13_CreateAndPollArguments ==
  \A i \in Invocations :
    /\ \A k \in 1..Len(Creates(i)) :
         /\ Creates(i)[k].path = store[cr[i].name].spec.path
         /\ Creates(i)[k].dist = configMaps.data[ConfigDistributionID]
         /\ Creates(i)[k].res = "ok" =>
              /\ Creates(i)[k].id = createId[i]
              /\ cdn[createId[i]].items = << PathOf(cr[i].name) >>
              /\ cdn[createId[i]].dist = configMaps.data[ConfigDistributionID]
    /\ \A k \in 1..Len(Gets(i)) :
         /\ Gets(i)[k].dist = Creates(i)[1].dist
         /\ Gets(i)[k].id = Creates(i)[1].id
         /\ \A j \in Invocations \ {i} :
              \A m \in 1..Len(Creates(j)) : Creates(j)[m].id # Gets(i)[k].id

\* An invocation polls while another one has created a later invalidation.
C13_Witness ==
  \E i, j \in Invocations :
    /\ Len(Gets(i)) >= 1
    /\ createId[j] > createId[i]
    /\ createId[i] > 0

\* C14: the workflow never changes spec.configMap, spec.path, the namespace
\* or the name of a resource, neither in the object it holds nor in the one
\* persisted: the status is the only part written.
C14_SpecAndIdentityKept ==
  /\ [](\A n \in ObjectNames :
          /\ store[n].spec = [configMap |-> ConfigMapOf(n), path |-> PathOf(n)]
          /\ store[n].name = n
          /\ store[n].namespace = Namespace)
  /\ [][/\ \A n \in ObjectNames :
             [store'[n] EXCEPT !.status = store[n].status] = store[n]
        /\ \A i \in Invocations :
             pc[i] # "idle" =>
               [cr'[i] EXCEPT !.status = cr[i].status] = cr[i]]_vars

\* One invocation has written the status of inv-a and another one has
\* failed on it.
C14_Witness ==
  /\ store["inv-a"].status.phase = StatusCompleted
  /\ \E i \in Invocations :
       pc[i] = "done" /\ ret[i] # Nil /\ cr[i].name = "inv-a"

\* C15: Handle does not look at the status: an event for an Invalidation,
\* one whose phase is already Completed included, runs the workflow, and when
\* the ConfigMap is valid a create call is issued; Handle returns nil for an
\* Invalidation only after a create call of its own.
C15_CompletedIsProcessedAgain ==
  \A i \in Invocations :
    (pc[i] # "idle" /\ IsInvalidation(cr[i])) =>
      /\ (pc[i] = "done" /\ ret[i] = Nil) => Len(Creates(i)) = 1
      /\ (Loaded(i) /\ DOMAIN configMaps.data = ConfigKeys) =>
           pc[i] = "create" \/ Len(Creates(i)) = 1
      /\ pc[i] = "create" => ENABLED CreateInvalidation(i)

\* An event delivered for a resource already Completed has led to a new
\* create call.
C15_Witness ==
  \E i \in Invocations :
    /\ pc[i] = "poll"
    /\ cr[i].status.phase = StatusCompleted
    /\ cr[i].status.id # createId[i]
    /\ Creates(i)[1].res = "ok"

====
